---- MODULE Spec2Model ----
(***************************************************************************)
(* A model of delete_files.py: the file enumerator read_files_in_folder    *)
(* and the three operations delete_files, move_files_by_type and           *)
(* move_files_by_year, run against a small file system.                    *)
(*                                                                         *)
(* A name is a sequence of one-character strings, a path is a sequence of  *)
(* names (os.path.join appends a name).  A time is a tick count; the       *)
(* modification year of a file is derived from its tick.                   *)
(***************************************************************************)
EXTENDS Integers, Sequences, FiniteSets, TLC

VARIABLES
    files,       \* the regular files: path -> [mtime, ino]
    dirs,        \* the directories (a set of paths)
    blocked,     \* paths os.path.exists() reports absent and os.makedirs() fails on
    pc,          \* "idle", "prompt" (blocked in input()), "exec", "done"
    call,        \* the arguments of the running call
    plan,        \* files_to_delete / files_to_move / all_files
    files_by_year, \* move_files_by_year: the ordered dict year -> files
    yi,          \* move_files_by_year: index of the year group being processed
    folderReady, \* move_files_by_year: the year folder of group yi has been handled
    i,           \* index of the next entry (of plan, or of the group yi)
    count,       \* deleted_count / moved_count
    names,       \* deleted_files / moved_files
    ret,         \* the returned value, once pc = "done"
    files0,      \* history: files when the call started
    dirs0,       \* history: dirs when the call started
    prompted,    \* history: input() was called
    response,    \* history: the line read by input()
    attempted,   \* history: the paths handed to os.remove / shutil.move, in order
    failures,    \* history: number of "Failed to ..." reports
    vanished,    \* history: paths removed by somebody else during execution
    effected,    \* history: names of the files that really left their path
    made,        \* history: the paths os.makedirs was called on, in order
    folderError  \* history: a folder could not be created

vars == <<files, dirs, blocked, pc, call, plan, files_by_year, yi, folderReady, i,
          count, names, ret, files0, dirs0, prompted, response, attempted,
          failures, vanished, effected, made, folderError>>

(***************************************************************************)
(* Bounds of the model.                                                    *)
(***************************************************************************)
MaxTime == 1
MaxVanish == 1

Times == 0..MaxTime
NoDate == -1
DateArgs == {NoDate} \cup Times

(***************************************************************************)
(* Strings.                                                                *)
(***************************************************************************)
UpperLetters == <<"A","B","C","D","E","F","G","H","I","J","K","L","M",
                  "N","O","P","Q","R","S","T","U","V","W","X","Y","Z">>
LowerLetters == <<"a","b","c","d","e","f","g","h","i","j","k","l","m",
                  "n","o","p","q","r","s","t","u","v","w","x","y","z">>
Digits == <<"0","1","2","3","4","5","6","7","8","9">>

\* the lower-case letter of each upper-case letter
LowerOf ==
    [c \in {UpperLetters[k] : k \in 1..Len(UpperLetters)} |->
        LowerLetters[CHOOSE k \in 1..Len(UpperLetters) : UpperLetters[k] = c]]

LowerChar(c) == IF c \in DOMAIN LowerOf THEN LowerOf[c] ELSE c

\* str.lower()
Lower(s) == [k \in 1..Len(s) |-> LowerChar(s[k])]

\* str.rfind('.'), 1-based, 0 when there is no dot
RFindDot(s) ==
    IF \E k \in 1..Len(s) : s[k] = "."
    THEN CHOOSE k \in 1..Len(s) : s[k] = "." /\ \A j \in (k+1)..Len(s) : s[j] # "."
    ELSE 0

\* pathlib's PurePath.suffix: the part from the last dot on, unless the dot is the
\* first or the last character of the name
Suffix(s) ==
    LET d == RFindDot(s)
    IN  IF 1 < d /\ d < Len(s) THEN SubSeq(s, d, Len(s)) ELSE <<>>

RECURSIVE Str(_)
\* str(int) of a non-negative integer
Str(n) == IF n < 10 THEN <<Digits[n + 1]>> ELSE Str(n \div 10) \o <<Digits[(n % 10) + 1]>>

\* datetime.fromtimestamp(t).year
Year(t) == 2023 + t

(***************************************************************************)
(* The names and paths of the modelled file system.                        *)
(***************************************************************************)
SRC == <<"s","r","c">>
SUB == <<"s","u","b">>
OUT == <<"o","u","t">>
A_TXT == <<"a",".","t","x","t">>
B_JPG == <<"b",".","J","P","G">>
C_PDF == <<"c",".","P","d","f">>

Join(folder, name) == Append(folder, name)
Parent(p) == SubSeq(p, 1, Len(p) - 1)
Prefixes(p) == {SubSeq(p, 1, k) : k \in 1..Len(p)}

Source == <<SRC>>
SubDir == <<SRC, SUB>>
OutDir == <<OUT>>
BlockedYearDir == Join(OutDir, Str(Year(MaxTime)))

\* the order in which a directory lists its entries
ListOrder == <<A_TXT, B_JPG, C_PDF, SUB, OUT>> \o [k \in 1..(MaxTime + 1) |-> Str(Year(k - 1))]

TextFiles == {Join(Source, A_TXT), Join(Source, C_PDF), Join(SubDir, A_TXT)}
Picture == Join(Source, B_JPG)
Ino(p) ==
    IF p = Join(Source, A_TXT) THEN 1
    ELSE IF p = Join(Source, C_PDF) THEN 2
    ELSE IF p = Join(SubDir, A_TXT) THEN 3 ELSE 4

FileTypes == {<<>>, <<"T","X","T">>, <<"j","p","g">>}
Responses == {<<"Y","e","s">>, <<"n","o">>, <<>>}

picture_extensions ==
    { <<".","j","p","g">>, <<".","j","p","e","g">>, <<".","p","n","g">>,
      <<".","g","i","f">>, <<".","b","m","p">>, <<".","w","e","b","p">>,
      <<".","s","v","g">>, <<".","t","i","f","f">>, <<".","i","c","o">> }

(***************************************************************************)
(* The file-system primitives.                                             *)
(***************************************************************************)
\* os.path.exists
Exists(fl, ds, p) == p \in DOMAIN fl \/ p \in ds

\* a slip: the test for a regular file is left out
IsFile_Any(fl, p) == TRUE

\* os.path.isfile
IsFile(fl, p) == p \in DOMAIN fl

\* os.listdir
ListDir(fl, ds, folder) ==
    LET In(n) == Exists(fl, ds, Join(folder, n))
    IN  SelectSeq(ListOrder, In)

\* os.makedirs raises when the path or one of its parents cannot be made
CanMakeDirs(bl, p) == Prefixes(p) \cap bl = {}

\* os.makedirs creates the path and its missing parents
MakeDirs(ds, p) == ds \cup Prefixes(p)

\* os.remove
Remove(fl, p) == [q \in (DOMAIN fl) \ {p} |-> fl[q]]

\* shutil.move of a file onto a file path: a rename, which replaces the destination
MoveOk(fl, ds, src, dst) == src \in DOMAIN fl /\ Parent(dst) \in ds

Move(fl, src, dst) ==
    [q \in ((DOMAIN fl) \ {src}) \cup {dst} |-> IF q = dst THEN fl[src] ELSE fl[q]]

RECURSIVE Walk(_, _, _)
\* os.walk, top-down: (root, filenames) of the folder, then of each subfolder
Walk(fl, ds, top) ==
    LET entries == ListDir(fl, ds, top)
        IsD(n) == Join(top, n) \in ds
        IsF(n) == Join(top, n) \notin ds
        dnames == SelectSeq(entries, IsD)
        RECURSIVE Below(_)
        Below(k) == IF k > Len(dnames) THEN <<>>
                    ELSE Walk(fl, ds, Join(top, dnames[k])) \o Below(k + 1)
    IN  <<[root |-> top, filenames |-> SelectSeq(entries, IsF)]>> \o Below(1)

(***************************************************************************)
(* read_files_in_folder.                                                   *)
(***************************************************************************)
\* os.path.getmtime (a directory has a modification time too)
GetMTime(fl, p) == IF p \in DOMAIN fl THEN fl[p].mtime ELSE 0

\* a slip: the suffix is compared as written, without lower()
IsPicture_CaseSensitive(f) == Suffix(f) \in picture_extensions

\* Path(f).suffix.lower() in picture_extensions
IsPicture(f) == Lower(Suffix(f)) \in picture_extensions

\* a slip: the bounds themselves are skipped too (<= and >= for < and >)
DateOk_Exclusive(mod_time, start_date, end_date) ==
    /\ ~(start_date # NoDate /\ mod_time <= start_date)
    /\ ~(end_date # NoDate /\ mod_time >= end_date)

\* the date test: a file is skipped when it is older than start_date or newer than
\* end_date; a date that is not None is true
DateOk(mod_time, start_date, end_date) ==
    /\ ~(start_date # NoDate /\ mod_time < start_date)
    /\ ~(end_date # NoDate /\ mod_time > end_date)

Keep(fl, file_path, f, start_date, end_date) ==
    /\ ~IsPicture(f)
    /\ (start_date # NoDate \/ end_date # NoDate)
          => DateOk(GetMTime(fl, file_path), start_date, end_date)

Entries(root, filenames) ==
    [k \in 1..Len(filenames) |-> <<Join(root, filenames[k]), filenames[k]>>]

RECURSIVE Flatten(_)
Flatten(w) == IF w = <<>> THEN <<>>
              ELSE Entries(Head(w).root, Head(w).filenames) \o Flatten(Tail(w))

read_files_in_folder(fl, ds, folder_path, start_date, end_date, recursive) ==
    LET KeepW(e) == Keep(fl, e[1], e[2], start_date, end_date)
        KeepL(e) == IsFile(fl, e[1]) /\ Keep(fl, e[1], e[2], start_date, end_date)
    IN  IF recursive
        THEN SelectSeq(Flatten(Walk(fl, ds, folder_path)), KeepW)
        ELSE SelectSeq(Entries(folder_path, ListDir(fl, ds, folder_path)), KeepL)

(***************************************************************************)
(* The planners.                                                           *)
(***************************************************************************)
\* move_files_by_type: a file type without its dot gets one
NormalizeType(file_type) ==
    IF file_type # <<>> /\ file_type[1] # "." THEN <<".">> \o file_type ELSE file_type

\* a slip: the empty file type is compared like any other
FilterByType_NoEmpty(all_files, file_type) ==
    LET Match(e) == Lower(Suffix(e[2])) = Lower(file_type)
    IN  SelectSeq(all_files, Match)

\* move_files_by_type: the filter by type, file_type being normalized
FilterByType(all_files, file_type) ==
    LET Match(e) == file_type = <<>> \/ Lower(Suffix(e[2])) = Lower(file_type)
    IN  SelectSeq(all_files, Match)

\* a slip: the list of a known year is started again instead of appended to
AddToYear_Reset(groups, year, e) ==
    IF \E k \in 1..Len(groups) : groups[k].year = year
    THEN LET k == CHOOSE k \in 1..Len(groups) : groups[k].year = year
         IN  [groups EXCEPT ![k].files = <<e>>]
    ELSE Append(groups, [year |-> year, files |-> <<e>>])

AddToYear(groups, year, e) ==
    IF \E k \in 1..Len(groups) : groups[k].year = year
    THEN LET k == CHOOSE k \in 1..Len(groups) : groups[k].year = year
         IN  [groups EXCEPT ![k].files = Append(@, e)]
    ELSE Append(groups, [year |-> year, files |-> <<e>>])

RECURSIVE GroupFrom(_, _, _)
GroupFrom(fl, all_files, groups) ==
    IF all_files = <<>> THEN groups
    ELSE LET e == Head(all_files)
         IN  GroupFrom(fl, Tail(all_files),
                       IF e[1] \in DOMAIN fl
                       THEN AddToYear(groups, Str(Year(GetMTime(fl, e[1]))), e)
                       ELSE groups)

\* a slip: a list is set up for every year of the range before the files are sorted
GroupByYear_Eager(fl, all_files) ==
    GroupFrom(fl, all_files,
              [k \in 1..(MaxTime + 1) |-> [year |-> Str(Year(k - 1)), files |-> <<>>]])

\* move_files_by_year: files_by_year, a dict in insertion order
GroupByYear(fl, all_files) == GroupFrom(fl, all_files, <<>>)

\* a slip: the prompt comes before the test for an empty work list
AfterPlan_PromptFirst(work, confirm) ==
    IF confirm THEN "prompt" ELSE IF work = <<>> THEN "done" ELSE "exec"

\* where a call goes once its work list is known
AfterPlan(work, confirm) ==
    IF work = <<>> THEN "done" ELSE IF confirm THEN "prompt" ELSE "exec"

\* response.lower() == "yes"
Accepts(r) == Lower(r) = <<"y","e","s">>

\* a slip: the counter is incremented outside the try block
Tally_Always(ok, c) == c + 1

\* the counter of successes: incremented after the primitive returned
Tally(ok, c) == IF ok THEN c + 1 ELSE c

Zero == [count |-> 0, names |-> <<>>]
NotReturned == [count |-> -1, names |-> <<>>]
NoCall == [op |-> "none", folder |-> <<>>, start |-> NoDate, end |-> NoDate,
           confirm |-> FALSE, recursive |-> FALSE, file_type |-> <<>>, dest |-> <<>>]

(***************************************************************************)
(* The initial states: a source folder with a subfolder, a picture and any *)
(* of three other files, and a destination that is absent, or present with *)
(* one year folder that cannot be made, or that cannot be made itself.     *)
(***************************************************************************)
Init ==
    /\ \E present \in SUBSET TextFiles, m \in [TextFiles -> Times] :
          files = [p \in present \cup {Picture} |->
                     [mtime |-> IF p = Picture THEN 0 ELSE m[p], ino |-> Ino(p)]]
    /\ \E env \in 1..3 :
          /\ dirs = {Source, SubDir} \cup (IF env = 2 THEN {OutDir} ELSE {})
          /\ blocked = IF env = 1 THEN {} ELSE IF env = 2 THEN {BlockedYearDir} ELSE {OutDir}
    /\ pc = "idle"
    /\ call = NoCall
    /\ plan = <<>>
    /\ files_by_year = <<>>
    /\ yi = 1
    /\ folderReady = FALSE
    /\ i = 1
    /\ count = 0
    /\ names = <<>>
    /\ ret = NotReturned
    /\ files0 = files
    /\ dirs0 = dirs
    /\ prompted = FALSE
    /\ response = <<>>
    /\ attempted = <<>>
    /\ failures = 0
    /\ vanished = {}
    /\ effected = <<>>
    /\ made = <<>>
    /\ folderError = FALSE

(***************************************************************************)
(* delete_files.                                                           *)
(***************************************************************************)
CallDelete(start_date, end_date, confirm, recursive) ==
    /\ pc = "idle"
    /\ LET files_to_delete ==
               read_files_in_folder(files, dirs, Source, start_date, end_date, recursive)
       IN  /\ plan' = files_to_delete
           /\ pc' = AfterPlan(files_to_delete, confirm)
           /\ ret' = IF files_to_delete = <<>> THEN Zero ELSE ret
    /\ call' = [NoCall EXCEPT !.op = "delete", !.folder = Source, !.start = start_date,
                              !.end = end_date, !.confirm = confirm,
                              !.recursive = recursive]
    /\ UNCHANGED <<files, dirs, blocked, files_by_year, yi, folderReady, i, count, names,
                   files0, dirs0, prompted, response, attempted, failures, vanished,
                   effected, made, folderError>>

\* one turn of the loop over files_to_delete; the return follows the last turn
DeleteItem ==
    /\ pc = "exec" /\ call.op = "delete"
    /\ LET file_path == plan[i][1]
           file_name == plan[i][2]
           ok == file_path \in DOMAIN files
           deleted_count == Tally(ok, count)
           deleted_files == IF ok THEN Append(names, file_name) ELSE names
       IN  /\ files' = IF ok THEN Remove(files, file_path) ELSE files
           /\ count' = deleted_count
           /\ names' = deleted_files
           /\ failures' = IF ok THEN failures ELSE failures + 1
           /\ attempted' = Append(attempted, file_path)
           /\ effected' = IF ok THEN Append(effected, file_name) ELSE effected
           /\ i' = i + 1
           /\ IF i = Len(plan)
              THEN pc' = "done" /\ ret' = [count |-> deleted_count, names |-> deleted_files]
              ELSE UNCHANGED <<pc, ret>>
    /\ UNCHANGED <<dirs, blocked, call, plan, files_by_year, yi, folderReady, files0,
                   dirs0, prompted, response, vanished, made, folderError>>

(***************************************************************************)
(* The confirmation prompt of the three operations.                        *)
(***************************************************************************)
Confirm(r) ==
    /\ pc = "prompt"
    /\ prompted' = TRUE
    /\ response' = r
    /\ IF Accepts(r)
       THEN pc' = "exec" /\ UNCHANGED ret
       ELSE pc' = "done" /\ ret' = Zero
    /\ UNCHANGED <<files, dirs, blocked, call, plan, files_by_year, yi, folderReady, i,
                   count, names, files0, dirs0, attempted, failures, vanished, effected,
                   made, folderError>>

(***************************************************************************)
(* move_files_by_type.                                                     *)
(***************************************************************************)
CallMoveByType(file_type, destination_folder, start_date, end_date, confirm, recursive) ==
    /\ pc = "idle"
    /\ call' = [NoCall EXCEPT !.op = "type", !.folder = Source, !.start = start_date,
                              !.end = end_date, !.confirm = confirm,
                              !.recursive = recursive,
                              !.file_type = NormalizeType(file_type),
                              !.dest = destination_folder]
    /\ IF ~Exists(files, dirs, destination_folder)
          /\ ~CanMakeDirs(blocked, destination_folder)
       THEN \* os.makedirs raises: "Error during move", return 0, []
            /\ pc' = "done"
            /\ ret' = Zero
            /\ folderError' = TRUE
            /\ UNCHANGED <<dirs, plan, made>>
       ELSE LET newdirs == IF Exists(files, dirs, destination_folder) THEN dirs
                           ELSE MakeDirs(dirs, destination_folder)
                all_files == read_files_in_folder(files, newdirs, Source, start_date,
                                                  end_date, recursive)
                files_to_move == FilterByType(all_files, NormalizeType(file_type))
            IN  /\ dirs' = newdirs
                /\ made' = IF Exists(files, dirs, destination_folder) THEN made
                           ELSE Append(made, destination_folder)
                /\ plan' = files_to_move
                /\ pc' = AfterPlan(files_to_move, confirm)
                /\ ret' = IF files_to_move = <<>> THEN Zero ELSE ret
                /\ UNCHANGED folderError
    /\ UNCHANGED <<files, blocked, files_by_year, yi, folderReady, i, count, names,
                   files0, dirs0, prompted, response, attempted, failures, vanished,
                   effected>>

\* one turn of the loop over files_to_move; the return follows the last turn
MoveItem ==
    /\ pc = "exec" /\ call.op = "type"
    /\ LET file_path == plan[i][1]
           file_name == plan[i][2]
           destination_path == Join(call.dest, file_name)
           ok == MoveOk(files, dirs, file_path, destination_path)
           moved_count == Tally(ok, count)
           moved_files == IF ok THEN Append(names, file_name) ELSE names
       IN  /\ files' = IF ok THEN Move(files, file_path, destination_path) ELSE files
           /\ count' = moved_count
           /\ names' = moved_files
           /\ failures' = IF ok THEN failures ELSE failures + 1
           /\ attempted' = Append(attempted, file_path)
           /\ effected' = IF ok /\ destination_path # file_path
                          THEN Append(effected, file_name) ELSE effected
           /\ i' = i + 1
           /\ IF i = Len(plan)
              THEN pc' = "done" /\ ret' = [count |-> moved_count, names |-> moved_files]
              ELSE UNCHANGED <<pc, ret>>
    /\ UNCHANGED <<dirs, blocked, call, plan, files_by_year, yi, folderReady, files0,
                   dirs0, prompted, response, vanished, made, folderError>>

(***************************************************************************)
(* move_files_by_year.                                                     *)
(***************************************************************************)
\* destination_folder is <<>> for None
CallMoveByYear(destination_folder, confirm, recursive) ==
    /\ pc = "idle"
    /\ LET dest == IF destination_folder = <<>> THEN Source ELSE destination_folder
           all_files == read_files_in_folder(files, dirs, Source, NoDate, NoDate,
                                             recursive)
       IN  /\ call' = [NoCall EXCEPT !.op = "year", !.folder = Source,
                                     !.confirm = confirm, !.recursive = recursive,
                                     !.dest = dest]
           /\ plan' = all_files
           /\ files_by_year' = IF all_files = <<>> THEN <<>>
                               ELSE GroupByYear(files, all_files)
           /\ pc' = AfterPlan(all_files, confirm)
           /\ ret' = IF all_files = <<>> THEN Zero ELSE ret
    /\ UNCHANGED <<files, dirs, blocked, yi, folderReady, i, count, names, files0, dirs0,
                   prompted, response, attempted, failures, vanished, effected, made,
                   folderError>>

\* the head of a turn of the loop over files_by_year: the year folder is made
\* unless it exists, and moved_files[year] starts empty
MakeYearFolder ==
    /\ pc = "exec" /\ call.op = "year" /\ ~folderReady
    /\ yi <= Len(files_by_year)
    /\ LET year == files_by_year[yi].year
           year_folder == Join(call.dest, year)
       IN  IF Exists(files, dirs, year_folder)
           THEN /\ names' = Append(names, [year |-> year, names |-> <<>>])
                /\ folderReady' = TRUE
                /\ UNCHANGED <<dirs, made, pc, ret, folderError>>
           ELSE IF CanMakeDirs(blocked, year_folder)
           THEN /\ dirs' = MakeDirs(dirs, year_folder)
                /\ made' = Append(made, year_folder)
                /\ names' = Append(names, [year |-> year, names |-> <<>>])
                /\ folderReady' = TRUE
                /\ UNCHANGED <<pc, ret, folderError>>
           ELSE \* os.makedirs raises: "Error during move", return 0, {}
                /\ pc' = "done"
                /\ ret' = Zero
                /\ folderError' = TRUE
                /\ UNCHANGED <<dirs, made, names, folderReady>>
    /\ UNCHANGED <<files, blocked, call, plan, files_by_year, yi, i, count, files0,
                   dirs0, prompted, response, attempted, failures, vanished, effected>>

\* one turn of the loop over the files of a year; the return follows the last turn
\* of the last year
MoveYearItem ==
    /\ pc = "exec" /\ call.op = "year" /\ folderReady
    /\ LET group == files_by_year[yi].files
           file_path == group[i][1]
           file_name == group[i][2]
           destination_path == Join(Join(call.dest, files_by_year[yi].year), file_name)
           ok == MoveOk(files, dirs, file_path, destination_path)
           moved_count == Tally(ok, count)
           moved_files == IF ok THEN [names EXCEPT ![yi].names = Append(@, file_name)]
                          ELSE names
       IN  /\ files' = IF ok THEN Move(files, file_path, destination_path) ELSE files
           /\ count' = moved_count
           /\ names' = moved_files
           /\ failures' = IF ok THEN failures ELSE failures + 1
           /\ attempted' = Append(attempted, file_path)
           /\ effected' = IF ok /\ destination_path # file_path
                          THEN Append(effected, file_name) ELSE effected
           /\ IF i < Len(group)
              THEN i' = i + 1 /\ UNCHANGED <<yi, folderReady, pc, ret>>
              ELSE /\ i' = 1
                   /\ yi' = yi + 1
                   /\ folderReady' = FALSE
                   /\ IF yi = Len(files_by_year)
                      THEN pc' = "done"
                           /\ ret' = [count |-> moved_count, names |-> moved_files]
                      ELSE UNCHANGED <<pc, ret>>
    /\ UNCHANGED <<dirs, blocked, call, plan, files_by_year, files0, dirs0, prompted,
                   response, vanished, made, folderError>>

(***************************************************************************)
(* The environment: between enumeration and execution somebody else may    *)
(* remove a file the plan names.                                           *)
(***************************************************************************)
ExternalDelete(p) ==
    /\ pc = "exec"
    /\ attempted = <<>>
    /\ Cardinality(vanished) < MaxVanish
    /\ p \in DOMAIN files
    /\ \E k \in 1..Len(plan) : plan[k][1] = p
    /\ files' = Remove(files, p)
    /\ vanished' = vanished \cup {p}
    /\ UNCHANGED <<dirs, blocked, pc, call, plan, files_by_year, yi, folderReady, i,
                   count, names, ret, files0, dirs0, prompted, response, attempted,
                   failures, effected, made, folderError>>

Next ==
    \/ \E s \in DateArgs, e \in DateArgs, c \in BOOLEAN, r \in BOOLEAN :
          CallDelete(s, e, c, r)
    \/ \E t \in FileTypes, s \in DateArgs, e \in DateArgs, c \in BOOLEAN, r \in BOOLEAN :
          CallMoveByType(t, OutDir, s, e, c, r)
    \/ \E d \in {<<>>, OutDir}, c \in BOOLEAN, r \in BOOLEAN :
          CallMoveByYear(d, c, r)
    \/ \E r \in Responses : Confirm(r)
    \/ DeleteItem
    \/ MoveItem
    \/ MakeYearFolder
    \/ MoveYearItem
    \/ \E p \in TextFiles : ExternalDelete(p)

Spec == Init /\ [][Next]_vars

(***************************************************************************)
(* Notions the properties are stated with.                                 *)
(***************************************************************************)
Range(s) == {s[k] : k \in 1..Len(s)}
NameOf(p) == p[Len(p)]
Yes == <<"y","e","s">>

\* the name ends, whatever the case of its letters, in one of the image extensions
HasImageExtension(n) ==
    \E ext \in picture_extensions :
        /\ Len(n) > Len(ext)
        /\ Lower(SubSeq(n, Len(n) - Len(ext) + 1, Len(n))) = ext

\* t lies within [s, e], an absent bound not binding
InWindow(t, s, e) == (s = NoDate \/ t >= s) /\ (e = NoDate \/ t <= e)

RECURSIVE FlatFiles(_)
FlatFiles(groups) ==
    IF groups = <<>> THEN <<>> ELSE Head(groups).files \o FlatFiles(Tail(groups))

RECURSIVE FlatNames(_)
FlatNames(d) == IF d = <<>> THEN <<>> ELSE Head(d).names \o FlatNames(Tail(d))

\* the entries in the order the executor takes them
WorkList == IF call.op = "year" THEN FlatFiles(files_by_year) ELSE plan
WorkPaths == [k \in 1..Len(WorkList) |-> WorkList[k][1]]

\* the names a finished call returned
ReturnedNames == IF call.op = "year" THEN FlatNames(ret.names) ELSE ret.names

Declined == prompted /\ Lower(response) # Yes

(***************************************************************************)
(* C1: when the line read at the prompt is not "yes" (whatever its case),  *)
(* the call returns a zero count and the file system is as it was before   *)
(* the call: no file removed or moved, no directory created.               *)
(***************************************************************************)
C1_DeclineLeavesFileSystem ==
    (pc = "done" /\ Declined) => (files = files0 /\ dirs = dirs0 /\ ret = Zero)

(***************************************************************************)
(* C2: a failure on one entry never stops the batch.  The entries are      *)
(* attempted in plan order; once the call has returned with every folder   *)
(* it needed in place, every entry has been attempted, one failure is      *)
(* reported per entry whose path had vanished, and the returned count is   *)
(* the number of entries less the failures (n - 1 for one vanished path).  *)
(***************************************************************************)
C2_FailureIsolation ==
    /\ attempted = SubSeq(WorkPaths, 1, Len(attempted))
    /\ (pc = "done" /\ attempted # <<>> /\ ~folderError) =>
          /\ attempted = WorkPaths
          /\ Len(WorkPaths) = Len(plan)
          /\ failures = Cardinality(vanished)
          /\ ret.count = Len(plan) - failures
          /\ (Cardinality(vanished) = 1 => failures = 1 /\ ret.count = Len(plan) - 1)

C2_Witness ==
    /\ pc = "done" /\ ~folderError
    /\ Len(plan) >= 2
    /\ Len(attempted) = Len(plan)
    /\ vanished = {attempted[1]}
    /\ failures = 1
    /\ ret.count = Len(plan) - 1

(***************************************************************************)
(* C3: no file with an image extension is ever removed or moved, by any of *)
(* the three operations and for any requested file type: it is never       *)
(* handed to the executor and is where it was when the call started.       *)
(***************************************************************************)
C3_PicturesUntouched ==
    \A p \in DOMAIN files0 :
        HasImageExtension(NameOf(p)) =>
            /\ p \in DOMAIN files
            /\ files[p] = files0[p]
            /\ p \notin Range(attempted)

C3_Witness ==
    /\ pc = "done"
    /\ call.op = "type" /\ call.file_type = <<>>
    /\ ret.count >= 2
    /\ Picture \in DOMAIN files

(***************************************************************************)
(* C4: the files read_files_in_folder returns with both bounds are those   *)
(* it returns with the start bound alone that it also returns with the end *)
(* bound alone; a file modified exactly at a bound is kept.                *)
(***************************************************************************)
C4_DateRangeIntersection ==
    call.op = "delete" =>
        LET Read(s, e) ==
                Range(read_files_in_folder(files0, dirs0, Source, s, e, call.recursive))
        IN  /\ Range(plan) = Read(call.start, NoDate) \cap Read(NoDate, call.end)
            /\ \A x \in Read(NoDate, NoDate) :
                  LET t == files0[x[1]].mtime
                  IN  /\ (t = call.start /\ InWindow(t, NoDate, call.end))
                          => x \in Range(plan)
                      /\ (t = call.end /\ InWindow(t, call.start, NoDate))
                          => x \in Range(plan)

C4_Witness ==
    /\ call.op = "delete"
    /\ call.start # NoDate /\ call.end # NoDate
    /\ \E x \in Range(plan) : files0[x[1]].mtime = call.start
    /\ \E x \in Range(plan) : files0[x[1]].mtime = call.end
    /\ \E p \in TextFiles \cap DOMAIN files0 :
          Parent(p) = Source /\ <<p, NameOf(p)>> \notin Range(plan)

(***************************************************************************)
(* C5: without recursion read_files_in_folder returns exactly the regular  *)
(* files directly inside the folder that have no image extension and a     *)
(* modification time within the range, each once; never a directory, never *)
(* a file of a subfolder.                                                  *)
(***************************************************************************)
C5_FlatEnumerationExact ==
    (call.op = "delete" /\ ~call.recursive) =>
        /\ Range(plan) =
              { <<p, NameOf(p)>> :
                  p \in { q \in DOMAIN files0 :
                            /\ Parent(q) = Source
                            /\ ~HasImageExtension(NameOf(q))
                            /\ InWindow(files0[q].mtime, call.start, call.end) } }
        /\ Cardinality(Range(plan)) = Len(plan)
        /\ \A x \in Range(plan) : x[1] \notin dirs0

C5_Witness ==
    /\ call.op = "delete" /\ ~call.recursive
    /\ Len(plan) = 1
    /\ Join(SubDir, A_TXT) \in DOMAIN files0
    /\ TextFiles \subseteq DOMAIN files0
    /\ call.start # NoDate

(***************************************************************************)
(* C6: with an empty file type move_files_by_type plans to move the very   *)
(* list delete_files plans to delete for the same folder, dates and        *)
(* recursive flag.                                                         *)
(***************************************************************************)
C6_EmptyTypeIsDeletePlan ==
    (call.op = "type" /\ call.file_type = <<>> /\ ~folderError) =>
        plan = read_files_in_folder(files0, dirs0, Source, call.start, call.end,
                                    call.recursive)

C6_Witness ==
    /\ call.op = "type" /\ call.file_type = <<>> /\ ~folderError
    /\ call.recursive /\ call.start # NoDate
    /\ Len(plan) = 2
    /\ TextFiles \subseteq DOMAIN files0

C8_EmptyPlanShortCircuit ==
    /\ (pc # "idle" /\ plan = <<>>) =>
          /\ pc = "done" /\ ret = Zero
          /\ ~prompted
          /\ attempted = <<>> /\ count = 0
          /\ (call.op = "year" => made = <<>>)
    /\ (prompted \/ pc = "prompt") => (plan # <<>> /\ call.confirm)

C8_Witness ==
    /\ pc = "done" /\ plan = <<>>
    /\ call.op = "year" /\ call.confirm
    /\ Picture \in DOMAIN files0
    /\ ~prompted /\ ret = Zero

(***************************************************************************)
(* C9: move_files_by_year makes a year folder only for a year some         *)
(* enumerated file was modified in, only once confirmation was granted or  *)
(* confirm is false, and at most once per year; nothing else is created    *)
(* but the destination on the way to it.                                   *)
(***************************************************************************)
C9_LazyYearFolders ==
    call.op = "year" =>
        /\ \A k \in 1..Len(made) :
              /\ \E x \in Range(plan) :
                    made[k] = Join(call.dest, Str(2023 + files0[x[1]].mtime))
              /\ call.confirm => (prompted /\ Lower(response) = Yes)
              /\ \A j \in 1..Len(made) : j # k => made[j] # made[k]
        /\ (dirs \ dirs0) \subseteq (Range(made) \cup Prefixes(call.dest))

C9_Witness ==
    /\ call.op = "year" /\ pc = "done"
    /\ call.confirm
    /\ Len(made) = 1
    /\ ret.count = 2
    /\ call.dest = OutDir

(***************************************************************************)
(* C10: the count a call returns is the number of files it removed or      *)
(* moved away from their path, and the names it returns are those files.   *)
(***************************************************************************)
C10_ResultMatchesEffect ==
    pc = "done" =>
        /\ ret.count = Len(effected)
        /\ ReturnedNames = effected
        /\ ret.count = Len(ReturnedNames)

====
